---- MODULE Spec2Model ----
(***************************************************************************)
(* Model of godot-core/src/init/mod.rs: the GDExtension entry point        *)
(* __gdext_load_library, the two host callbacks ffi_initialize_layer and   *)
(* ffi_deinitialize_layer, the process-wide INIT_HANDLE, InitHandle and    *)
(* InitLevel.                                                              *)
(*                                                                         *)
(* The host is single-threaded: it calls one boundary function at a time.  *)
(* __gdext_load_library is followed statement by statement (pc), because   *)
(* the extension's load_library runs in the middle of it and may register  *)
(* layers, return either boolean, or panic.  The two callbacks are one     *)
(* action each.                                                            *)
(***************************************************************************)
EXTENDS Integers, Sequences, FiniteSets

\* ------------------------------------------------------------------ bounds

\* Number of __gdext_load_library calls the host makes.
MaxLoads == 2

\* Number of register_layer calls one load_library makes.
MaxRegs == 2

\* Raw level identifiers the host passes are 0 .. MaxRaw.
MaxRaw == 4

\* ------------------------------------------------------------ InitLevel

InitLevel == {"Core", "Servers", "Scene", "Editor"}

\* #[derive(Ord)]: variants compare in declaration order.
LevelOrd(level) ==
    CASE level = "Core"    -> 0
      [] level = "Servers" -> 1
      [] level = "Scene"   -> 2
      [] level = "Editor"  -> 3

\* The host's raw level identifiers, GDExtensionInitializationLevel of
\* gdextension_interface.h, which from_sys and to_sys name through godot_ffi.
GDEXTENSION_INITIALIZATION_CORE == 0
GDEXTENSION_INITIALIZATION_SERVERS == 1
GDEXTENSION_INITIALIZATION_SCENE == 2
GDEXTENSION_INITIALIZATION_EDITOR == 3

RawLevels == 0 .. MaxRaw

KnownRawLevels ==
    { GDEXTENSION_INITIALIZATION_CORE, GDEXTENSION_INITIALIZATION_SERVERS,
      GDEXTENSION_INITIALIZATION_SCENE, GDEXTENSION_INITIALIZATION_EDITOR }

\* A from_sys whose fallback arm gives Core.
from_sys_unknown_to_core(level) ==
    CASE level = GDEXTENSION_INITIALIZATION_CORE    -> "Core"
      [] level = GDEXTENSION_INITIALIZATION_SERVERS -> "Servers"
      [] level = GDEXTENSION_INITIALIZATION_SCENE   -> "Scene"
      [] level = GDEXTENSION_INITIALIZATION_EDITOR  -> "Editor"
      [] OTHER                                      -> "Core"

\* Lines 255-266.
from_sys(level) ==
    CASE level = GDEXTENSION_INITIALIZATION_CORE    -> "Core"
      [] level = GDEXTENSION_INITIALIZATION_SERVERS -> "Servers"
      [] level = GDEXTENSION_INITIALIZATION_SCENE   -> "Scene"
      [] level = GDEXTENSION_INITIALIZATION_EDITOR  -> "Editor"
      [] OTHER                                      -> "Scene"

\* A to_sys whose Editor arm gives the Scene identifier.
to_sys_editor_as_scene(level) ==
    CASE level = "Core"    -> GDEXTENSION_INITIALIZATION_CORE
      [] level = "Servers" -> GDEXTENSION_INITIALIZATION_SERVERS
      [] level = "Scene"   -> GDEXTENSION_INITIALIZATION_SCENE
      [] level = "Editor"  -> GDEXTENSION_INITIALIZATION_SCENE

\* Lines 268-275.
to_sys(level) ==
    CASE level = "Core"    -> GDEXTENSION_INITIALIZATION_CORE
      [] level = "Servers" -> GDEXTENSION_INITIALIZATION_SERVERS
      [] level = "Scene"   -> GDEXTENSION_INITIALIZATION_SCENE
      [] level = "Editor"  -> GDEXTENSION_INITIALIZATION_EDITOR

\* ------------------------------------------------------- Option, layers

None == [tag |-> "None"]
Some(v) == [tag |-> "Some", val |-> v]

\* A layer value.  kind tells the implementation of ExtensionLayer; load and
\* reg tell which register_layer call boxed it, so that two layers are never
\* confused.
DefaultLayer(load, reg) == [kind |-> "DefaultLayer", load |-> load, reg |-> reg]
UserLayer(load, reg) == [kind |-> "UserLayer", load |-> load, reg |-> reg]

\* One entry of the record of layer operations a boundary call ran.
Ran(op, layer) == [op |-> op, layer |-> layer]

\* impl ExtensionLayer for DefaultLayer, and any user implementation.
\* panics: whether this run of the operation panics.  DefaultLayer's
\* initialize calls crate::auto_register_classes(); its deinitialize has an
\* empty body and cannot panic.
Layer_initialize(layer, panics) ==
    IF layer.kind = "DefaultLayer"
    THEN [calls |-> << Ran("initialize", layer), Ran("auto_register_classes", layer) >>,
          panicked |-> panics]
    ELSE [calls |-> << Ran("initialize", layer) >>, panicked |-> panics]

Layer_deinitialize(layer, panics) ==
    IF layer.kind = "DefaultLayer"
    THEN [calls |-> << Ran("deinitialize", layer) >>, panicked |-> FALSE]
    ELSE [calls |-> << Ran("deinitialize", layer) >>, panicked |-> panics]

\* ------------------------------------------------------------ InitHandle

\* layers: BTreeMap<InitLevel, Box<dyn ExtensionLayer>>, a function from the
\* levels that have an entry.
InitHandle_new == [layers |-> << >>]

\* A register_layer that keeps the entry a level already has.
register_layer_keep_first(h, level, layer) ==
    IF level \in DOMAIN h.layers
    THEN h
    ELSE [layers |-> [l \in DOMAIN h.layers \cup {level} |->
                        IF l = level THEN layer ELSE h.layers[l]]]

\* Lines 200-202: BTreeMap::insert replaces the entry of an occupied key.
register_layer(h, level, layer) ==
    [layers |-> [l \in DOMAIN h.layers \cup {level} |->
                    IF l = level THEN layer ELSE h.layers[l]]]

\* A lowest_init_level that takes the last entry of the map.
lowest_init_level_last(h) ==
    IF DOMAIN h.layers = {}
    THEN "Scene"
    ELSE CHOOSE k \in DOMAIN h.layers :
            \A m \in DOMAIN h.layers : LevelOrd(k) >= LevelOrd(m)

\* iter().next() of a BTreeMap is the entry with the least key.
lowest_init_level(h) ==
    IF DOMAIN h.layers = {}
    THEN "Scene"
    ELSE CHOOSE k \in DOMAIN h.layers :
            \A m \in DOMAIN h.layers : LevelOrd(k) <= LevelOrd(m)

\* run_init_function and run_deinit_function give the handle afterwards, the
\* layer operations run, and whether the layer panicked.

\* A run_init_function that removes the entry it runs (lines 217-219).
run_init_function_remove(h, level, panics) ==
    IF level \in DOMAIN h.layers
    THEN [handle |-> [layers |-> [l \in DOMAIN h.layers \ {level} |-> h.layers[l]]],
          calls |-> Layer_initialize(h.layers[level], panics).calls,
          panicked |-> Layer_initialize(h.layers[level], panics).panicked]
    ELSE [handle |-> h, calls |-> << >>, panicked |-> FALSE]

\* A run_init_function that panics when the level has no layer.
run_init_function_expect(h, level, panics) ==
    IF level \in DOMAIN h.layers
    THEN [handle |-> h,
          calls |-> Layer_initialize(h.layers[level], panics).calls,
          panicked |-> Layer_initialize(h.layers[level], panics).panicked]
    ELSE [handle |-> h, calls |-> << >>, panicked |-> TRUE]

\* Lines 216-226.
run_init_function(h, level, panics) ==
    IF level \in DOMAIN h.layers
    THEN [handle |-> h,
          calls |-> Layer_initialize(h.layers[level], panics).calls,
          panicked |-> Layer_initialize(h.layers[level], panics).panicked]
    ELSE [handle |-> h, calls |-> << >>, panicked |-> FALSE]

\* Lines 228-235.
run_deinit_function(h, level, panics) ==
    IF level \in DOMAIN h.layers
    THEN [handle |-> h,
          calls |-> Layer_deinitialize(h.layers[level], panics).calls,
          panicked |-> Layer_deinitialize(h.layers[level], panics).panicked]
    ELSE [handle |-> h, calls |-> << >>, panicked |-> FALSE]

\* ------------------------------------------------------ panic containment

\* crate::private::handle_panic(ctx, code): Some(result) when code returns,
\* None when it panics (the panic is printed with ctx and goes no further).
handle_panic(code) ==
    IF code.panicked THEN None ELSE Some(code.value)

\* ------------------------------------------------------------------- state

VARIABLES
    pc,          \* where the host is: "idle", or a statement of __gdext_load_library
    INIT_HANDLE, \* static mut INIT_HANDLE: Option<InitHandle>
    init,        \* *init, the GDExtensionInitialization the host reads
    handle,      \* the local `handle` of __gdext_load_library
    success,     \* the local `success` of __gdext_load_library
    ext,         \* E: "default" (load_library not overridden) or "custom"
    nLoads,      \* number of __gdext_load_library calls so far
    bindings,    \* whether sys::initialize has run
    regLog,      \* the register_layer calls made on `handle`, in order
    slotLog,     \* the register_layer calls made on the handle in INIT_HANDLE
    call,        \* the last boundary call: [fn, raw]
    calls,       \* the layer operations the last boundary call ran, in order
    ret,         \* what the last boundary call returned to the host
    caught,      \* whether handle_panic caught a panic in the last boundary call
    unwound,     \* whether a panic left a boundary function
    hadInitPanic, \* whether a layer's initialize has panicked in a callback
    hadDeinitPanic, \* whether a layer's deinitialize has panicked in a callback
    slotLoad,    \* the number of the Load that stored the handle in INIT_HANDLE
    slotSuccess, \* what load_library returned in the Load that stored that handle
    lastPanic,   \* the number of the last Load whose load_library panicked, or 0
    before       \* what the call before the last callback left its level in

vars == << pc, INIT_HANDLE, init, handle, success, ext, nLoads, bindings,
           regLog, slotLog, call, calls, ret, caught, unwound, hadInitPanic,
           hadDeinitPanic, slotLoad, slotSuccess, lastPanic, before >>

\* The state of spec 4.3's per-level machine that the boundary call before a
\* callback at level left that level in: "Registered" when that call was the
\* Load that stored the handle, "Initialized" or "Deinitialized" when it was
\* that callback at the same level, "unknown" after any other call, and
\* "none" when the level has no layer.
PhaseBefore(level) ==
    IF INIT_HANDLE = None THEN "none"
    ELSE IF level \notin DOMAIN INIT_HANDLE.val.layers THEN "none"
    ELSE IF call.fn = "load" /\ slotLoad = nLoads THEN "Registered"
    ELSE IF call.fn = "initialize" /\ from_sys(call.raw) = level THEN "Initialized"
    ELSE IF call.fn = "deinitialize" /\ from_sys(call.raw) = level THEN "Deinitialized"
    ELSE "unknown"

Uninit == [tag |-> "Uninit"]

Init ==
    /\ pc = "idle"
    /\ INIT_HANDLE = None
    /\ init = Uninit
    /\ handle = None
    /\ success = FALSE
    /\ ext = "none"
    /\ nLoads = 0
    /\ bindings = FALSE
    /\ regLog = << >>
    /\ slotLog = << >>
    /\ call = [fn |-> "none", raw |-> 0]
    /\ calls = << >>
    /\ ret = "none"
    /\ caught = FALSE
    /\ unwound = FALSE
    /\ hadInitPanic = FALSE
    /\ hadDeinitPanic = FALSE
    /\ slotLoad = 0
    /\ slotSuccess = FALSE
    /\ lastPanic = 0
    /\ before = "none"

\* ---------------------------------------------------- __gdext_load_library

\* Lines 21-33: editor_run_behavior, GdextConfig, sys::initialize and
\* InitHandle::new(), up to the call of E::load_library.
Load_Enter(e) ==
    /\ pc = "idle"
    /\ nLoads < MaxLoads
    /\ pc' = "load_library"
    /\ nLoads' = nLoads + 1
    /\ ext' = e
    /\ bindings' = TRUE
    /\ handle' = Some(InitHandle_new)
    /\ regLog' = << >>
    /\ success' = FALSE
    /\ call' = [fn |-> "load", raw |-> 0]
    /\ calls' = << >>
    /\ ret' = "none"
    /\ caught' = FALSE
    /\ UNCHANGED << INIT_HANDLE, init, slotLog, unwound, hadInitPanic >>
    /\ before' = "none"
    /\ UNCHANGED << slotLoad, slotSuccess, lastPanic, hadDeinitPanic >>

\* A default load_library that registers DefaultLayer at Editor.
Default_load_library_at_editor ==
    /\ pc = "load_library"
    /\ ext = "default"
    /\ handle' = Some(register_layer(handle.val, "Editor", DefaultLayer(nLoads, 1)))
    /\ regLog' = Append(regLog, [level |-> "Editor", layer |-> DefaultLayer(nLoads, 1)])
    /\ success' = TRUE
    /\ pc' = "write_table"
    /\ UNCHANGED << INIT_HANDLE, init, ext, nLoads, bindings, slotLog, call, calls,
                    ret, caught, unwound, hadInitPanic >>
    /\ UNCHANGED << before, slotLoad, slotSuccess, lastPanic, hadDeinitPanic >>

\* ExtensionLibrary::load_library, not overridden.
Default_load_library ==
    /\ pc = "load_library"
    /\ ext = "default"
    /\ handle' = Some(register_layer(handle.val, "Scene", DefaultLayer(nLoads, 1)))
    /\ regLog' = Append(regLog, [level |-> "Scene", layer |-> DefaultLayer(nLoads, 1)])
    /\ success' = TRUE
    /\ pc' = "write_table"
    /\ UNCHANGED << INIT_HANDLE, init, ext, nLoads, bindings, slotLog, call, calls,
                    ret, caught, unwound, hadInitPanic >>
    /\ UNCHANGED << before, slotLoad, slotSuccess, lastPanic, hadDeinitPanic >>

\* An overriding load_library calls handle.register_layer(level, layer).
Custom_register_layer(level) ==
    /\ pc = "load_library"
    /\ ext = "custom"
    /\ Len(regLog) < MaxRegs
    /\ LET layer == UserLayer(nLoads, Len(regLog) + 1)
       IN /\ handle' = Some(register_layer(handle.val, level, layer))
          /\ regLog' = Append(regLog, [level |-> level, layer |-> layer])
    /\ UNCHANGED << pc, INIT_HANDLE, init, success, ext, nLoads, bindings, slotLog,
                    call, calls, ret, caught, unwound, hadInitPanic >>
    /\ UNCHANGED << before, slotLoad, slotSuccess, lastPanic, hadDeinitPanic >>

\* A Load that exits early, with 0, when load_library returns false.
Custom_return_early_exit(b) ==
    /\ pc = "load_library"
    /\ ext = "custom"
    /\ success' = b
    /\ pc' = IF b THEN "write_table" ELSE "idle"
    /\ ret' = IF b THEN ret ELSE 0
    /\ handle' = IF b THEN handle ELSE None
    /\ regLog' = IF b THEN regLog ELSE << >>
    /\ UNCHANGED << INIT_HANDLE, init, ext, nLoads, bindings, slotLog,
                    call, calls, caught, unwound, hadInitPanic >>
    /\ UNCHANGED << before, slotLoad, slotSuccess, lastPanic, hadDeinitPanic >>

\* An overriding load_library returns b.
Custom_return(b) ==
    /\ pc = "load_library"
    /\ ext = "custom"
    /\ success' = b
    /\ pc' = "write_table"
    /\ UNCHANGED << INIT_HANDLE, init, handle, ext, nLoads, bindings, regLog, slotLog,
                    call, calls, ret, caught, unwound, hadInitPanic >>
    /\ UNCHANGED << before, slotLoad, slotSuccess, lastPanic, hadDeinitPanic >>

\* A Load in which the handle load_library works on is already in INIT_HANDLE
\* when load_library panics.
Custom_panic_publishes ==
    /\ pc = "load_library"
    /\ ext = "custom"
    /\ LET is_success == handle_panic([panicked |-> TRUE, value |-> 0])
       IN /\ ret' = IF is_success = None THEN 0 ELSE is_success.val
          /\ caught' = (is_success = None)
    /\ INIT_HANDLE' = Some(handle.val)
    /\ slotLog' = regLog
    /\ slotLoad' = nLoads
    /\ handle' = None
    /\ regLog' = << >>
    /\ pc' = "idle"
    /\ lastPanic' = nLoads
    /\ UNCHANGED << init, success, ext, nLoads, bindings, call, calls, unwound,
                    hadInitPanic, before, slotSuccess, hadDeinitPanic >>

\* An overriding load_library panics: init_code unwinds to handle_panic, the
\* local handle is dropped, and line 54 returns unwrap_or(0) of None.
Custom_panic ==
    /\ pc = "load_library"
    /\ ext = "custom"
    /\ LET is_success == handle_panic([panicked |-> TRUE, value |-> 0])
       IN /\ ret' = IF is_success = None THEN 0 ELSE is_success.val
          /\ caught' = (is_success = None)
    /\ handle' = None
    /\ regLog' = << >>
    /\ pc' = "idle"
    /\ UNCHANGED << INIT_HANDLE, init, success, ext, nLoads, bindings, slotLog,
                    call, calls, unwound, hadInitPanic >>
    /\ lastPanic' = nLoads
    /\ UNCHANGED << before, slotLoad, slotSuccess, hadDeinitPanic >>

\* A table whose minimum level is the default Scene whatever was registered.
Load_WriteTable_default_level ==
    /\ pc = "write_table"
    /\ init' = [minimum_initialization_level |-> to_sys("Scene"),
                userdata |-> "null",
                initialize |-> Some("ffi_initialize_layer"),
                deinitialize |-> Some("ffi_deinitialize_layer")]
    /\ pc' = "store_handle"
    /\ UNCHANGED << INIT_HANDLE, handle, success, ext, nLoads, bindings, regLog,
                    slotLog, call, calls, ret, caught, unwound, hadInitPanic >>
    /\ UNCHANGED << before, slotLoad, slotSuccess, lastPanic, hadDeinitPanic >>

\* A Load that stores the handle before it writes the table.
Load_WriteTable_stores_first ==
    /\ pc = "write_table"
    /\ INIT_HANDLE' = Some(handle.val)
    /\ slotLog' = regLog
    /\ slotLoad' = nLoads
    /\ init' = [minimum_initialization_level |-> to_sys(lowest_init_level(handle.val)),
                userdata |-> "null",
                initialize |-> Some("ffi_initialize_layer"),
                deinitialize |-> Some("ffi_deinitialize_layer")]
    /\ pc' = "store_handle"
    /\ UNCHANGED << handle, success, ext, nLoads, bindings, regLog,
                    call, calls, ret, caught, unwound, hadInitPanic >>
    /\ UNCHANGED << before, slotSuccess, lastPanic, hadDeinitPanic >>

\* Lines 38-45: the function table is built and written through `init`.
Load_WriteTable ==
    /\ pc = "write_table"
    /\ init' = [minimum_initialization_level |-> to_sys(lowest_init_level(handle.val)),
                userdata |-> "null",
                initialize |-> Some("ffi_initialize_layer"),
                deinitialize |-> Some("ffi_deinitialize_layer")]
    /\ pc' = "store_handle"
    /\ UNCHANGED << INIT_HANDLE, handle, success, ext, nLoads, bindings, regLog,
                    slotLog, call, calls, ret, caught, unwound, hadInitPanic >>
    /\ UNCHANGED << before, slotLoad, slotSuccess, lastPanic, hadDeinitPanic >>

\* A Load that returns 1 whenever its body completes, whatever load_library
\* returned.
Load_StoreHandle_ignores_success ==
    /\ pc = "store_handle"
    /\ INIT_HANDLE' = Some(handle.val)
    /\ slotLog' = regLog
    /\ LET is_success == handle_panic([panicked |-> FALSE, value |-> 1])
       IN /\ ret' = IF is_success = None THEN 0 ELSE is_success.val
          /\ caught' = (is_success = None)
    /\ handle' = None
    /\ regLog' = << >>
    /\ pc' = "idle"
    /\ UNCHANGED << init, success, ext, nLoads, bindings, call, calls, unwound,
                    hadInitPanic >>
    /\ slotLoad' = nLoads
    /\ slotSuccess' = success
    /\ UNCHANGED << before, lastPanic, hadDeinitPanic >>

\* A Load that fills INIT_HANDLE only when it is None (get_or_insert).
Load_StoreHandle_keep_existing ==
    /\ pc = "store_handle"
    /\ INIT_HANDLE' = IF INIT_HANDLE = None THEN Some(handle.val) ELSE INIT_HANDLE
    /\ slotLog' = IF INIT_HANDLE = None THEN regLog ELSE slotLog
    /\ slotLoad' = IF INIT_HANDLE = None THEN nLoads ELSE slotLoad
    /\ LET is_success == handle_panic([panicked |-> FALSE,
                                       value |-> IF success THEN 1 ELSE 0])
       IN /\ ret' = IF is_success = None THEN 0 ELSE is_success.val
          /\ caught' = (is_success = None)
    /\ handle' = None
    /\ regLog' = << >>
    /\ pc' = "idle"
    /\ slotSuccess' = IF INIT_HANDLE = None THEN success ELSE slotSuccess
    /\ UNCHANGED << init, success, ext, nLoads, bindings, call, calls, unwound,
                    hadInitPanic, before, lastPanic, hadDeinitPanic >>

\* Lines 46-54: INIT_HANDLE = Some(handle); success as u8; handle_panic
\* gives Some of it and unwrap_or(0) returns it.
Load_StoreHandle ==
    /\ pc = "store_handle"
    /\ INIT_HANDLE' = Some(handle.val)
    /\ slotLog' = regLog
    /\ LET is_success == handle_panic([panicked |-> FALSE,
                                       value |-> IF success THEN 1 ELSE 0])
       IN /\ ret' = IF is_success = None THEN 0 ELSE is_success.val
          /\ caught' = (is_success = None)
    /\ handle' = None
    /\ regLog' = << >>
    /\ pc' = "idle"
    /\ UNCHANGED << init, success, ext, nLoads, bindings, call, calls, unwound,
                    hadInitPanic >>
    /\ slotLoad' = nLoads
    /\ slotSuccess' = success
    /\ UNCHANGED << before, lastPanic, hadDeinitPanic >>

\* ------------------------------------------------------------ the callbacks

\* A closure that takes the handle out of INIT_HANDLE (take() for as_mut()).
init_closure_take(raw, panics) ==
    IF INIT_HANDLE = None
    THEN [handle |-> INIT_HANDLE, calls |-> << >>, panicked |-> TRUE, value |-> "unit"]
    ELSE LET r == run_init_function(INIT_HANDLE.val, from_sys(raw), panics)
         IN [handle |-> None, calls |-> r.calls, panicked |-> r.panicked,
             value |-> "unit"]

\* A closure that puts an empty handle into an empty INIT_HANDLE
\* (get_or_insert_with(InitHandle::new) for as_mut().unwrap()).
init_closure_get_or_insert(raw, panics) ==
    IF INIT_HANDLE = None
    THEN [handle |-> Some(InitHandle_new), calls |-> << >>, panicked |-> FALSE,
          value |-> "unit"]
    ELSE LET r == run_init_function(INIT_HANDLE.val, from_sys(raw), panics)
         IN [handle |-> Some(r.handle), calls |-> r.calls, panicked |-> r.panicked,
             value |-> "unit"]

\* The closure of lines 68-71: INIT_HANDLE.as_mut().unwrap() panics on None.
init_closure(raw, panics) ==
    IF INIT_HANDLE = None
    THEN [handle |-> INIT_HANDLE, calls |-> << >>, panicked |-> TRUE, value |-> "unit"]
    ELSE LET r == run_init_function(INIT_HANDLE.val, from_sys(raw), panics)
         IN [handle |-> Some(r.handle), calls |-> r.calls, panicked |-> r.panicked,
             value |-> "unit"]

\* A closure that deinitializes a level only right after it was initialized.
deinit_closure_only_if_initialized(raw, panics) ==
    IF INIT_HANDLE = None
    THEN [handle |-> INIT_HANDLE, calls |-> << >>, panicked |-> TRUE, value |-> "unit"]
    ELSE IF PhaseBefore(from_sys(raw)) # "Initialized"
    THEN [handle |-> INIT_HANDLE, calls |-> << >>, panicked |-> FALSE, value |-> "unit"]
    ELSE LET r == run_deinit_function(INIT_HANDLE.val, from_sys(raw), panics)
         IN [handle |-> Some(r.handle), calls |-> r.calls, panicked |-> r.panicked,
             value |-> "unit"]

\* The closure of lines 85-88.
deinit_closure(raw, panics) ==
    IF INIT_HANDLE = None
    THEN [handle |-> INIT_HANDLE, calls |-> << >>, panicked |-> TRUE, value |-> "unit"]
    ELSE LET r == run_deinit_function(INIT_HANDLE.val, from_sys(raw), panics)
         IN [handle |-> Some(r.handle), calls |-> r.calls, panicked |-> r.panicked,
             value |-> "unit"]

\* A callback whose closure is not run under handle_panic: a panic of the
\* closure leaves the extern "C" function.
ffi_initialize_layer_unguarded(raw, panics) ==
    /\ pc = "idle"
    /\ LET code == init_closure(raw, panics)
       IN /\ INIT_HANDLE' = code.handle
          /\ calls' = code.calls
          /\ caught' = FALSE
          /\ unwound' = (unwound \/ code.panicked)
          /\ hadInitPanic' = (hadInitPanic \/ (code.panicked /\ INIT_HANDLE # None))
          /\ pc' = IF code.panicked THEN "aborted" ELSE "idle"
    /\ call' = [fn |-> "initialize", raw |-> raw]
    /\ ret' = "void"
    /\ UNCHANGED << init, handle, success, ext, nLoads, bindings, regLog, slotLog >>
    /\ before' = PhaseBefore(from_sys(raw))
    /\ UNCHANGED << slotLoad, slotSuccess, lastPanic, hadDeinitPanic >>

\* Lines 57-72.
ffi_initialize_layer(raw, panics) ==
    /\ pc = "idle"
    /\ LET code == init_closure(raw, panics)
           r == handle_panic(code)
       IN /\ INIT_HANDLE' = code.handle
          /\ calls' = code.calls
          /\ caught' = (r = None)
          /\ unwound' = (unwound \/ (code.panicked /\ r # None))
          /\ hadInitPanic' = (hadInitPanic \/ (code.panicked /\ INIT_HANDLE # None))
    /\ call' = [fn |-> "initialize", raw |-> raw]
    /\ ret' = "void"
    /\ pc' = "idle"
    /\ UNCHANGED << init, handle, success, ext, nLoads, bindings, regLog, slotLog >>
    /\ before' = PhaseBefore(from_sys(raw))
    /\ UNCHANGED << slotLoad, slotSuccess, lastPanic, hadDeinitPanic >>

\* A Deinitialize callback whose closure is not run under handle_panic.
ffi_deinitialize_layer_unguarded(raw, panics) ==
    /\ pc = "idle"
    /\ LET code == deinit_closure(raw, panics)
       IN /\ INIT_HANDLE' = code.handle
          /\ calls' = code.calls
          /\ caught' = FALSE
          /\ unwound' = (unwound \/ code.panicked)
          /\ hadDeinitPanic' = (hadDeinitPanic \/ (code.panicked /\ INIT_HANDLE # None))
          /\ pc' = IF code.panicked THEN "aborted" ELSE "idle"
    /\ call' = [fn |-> "deinitialize", raw |-> raw]
    /\ ret' = "void"
    /\ before' = PhaseBefore(from_sys(raw))
    /\ UNCHANGED << init, handle, success, ext, nLoads, bindings, regLog, slotLog,
                    hadInitPanic, slotLoad, slotSuccess, lastPanic >>

\* Lines 74-89.
ffi_deinitialize_layer(raw, panics) ==
    /\ pc = "idle"
    /\ LET code == deinit_closure(raw, panics)
           r == handle_panic(code)
       IN /\ INIT_HANDLE' = code.handle
          /\ calls' = code.calls
          /\ caught' = (r = None)
          /\ unwound' = (unwound \/ (code.panicked /\ r # None))
    /\ call' = [fn |-> "deinitialize", raw |-> raw]
    /\ ret' = "void"
    /\ pc' = "idle"
    /\ UNCHANGED << init, handle, success, ext, nLoads, bindings, regLog, slotLog,
                    hadInitPanic >>
    /\ before' = PhaseBefore(from_sys(raw))
    /\ hadDeinitPanic' = (hadDeinitPanic \/ (deinit_closure(raw, panics).panicked /\ INIT_HANDLE # None))
    /\ UNCHANGED << slotLoad, slotSuccess, lastPanic >>

\* ------------------------------------------------------------------ helpers

\* The levels a sequence of register_layer calls named.
RegisteredLevels(log) == { log[i].level : i \in 1 .. Len(log) }

\* The layer of the last register_layer call of log at level.
LastRegistered(log, level) ==
    log[CHOOSE i \in 1 .. Len(log) :
            /\ log[i].level = level
            /\ \A j \in (i + 1) .. Len(log) : log[j].level # level].layer

\* The layers of the register_layer calls of log at level that a later call
\* at the same level followed.
EarlierRegistered(log, level) ==
    { log[i].layer : i \in { k \in 1 .. Len(log) :
            /\ log[k].level = level
            /\ \E j \in (k + 1) .. Len(log) : log[j].level = level } }

\* Core < Servers < Scene < Editor, written out.
LevelsAscending == << "Core", "Servers", "Scene", "Editor" >>

\* The first level of LevelsAscending that log registered, Scene if none.
MinRegistered(log) ==
    IF RegisteredLevels(log) = {}
    THEN "Scene"
    ELSE LevelsAscending[CHOOSE i \in 1 .. 4 :
            /\ LevelsAscending[i] \in RegisteredLevels(log)
            /\ \A j \in 1 .. (i - 1) : LevelsAscending[j] \notin RegisteredLevels(log)]

Callbacks == {"initialize", "deinitialize"}

\* The host is back from a callback that found a handle in INIT_HANDLE.
AfterCallback ==
    /\ pc = "idle"
    /\ call.fn \in Callbacks
    /\ INIT_HANDLE # None

\* A step that is one whole callback.
CallbackStep ==
    /\ pc = "idle"
    /\ call'.fn \in Callbacks
    /\ pc' # "load_library"

\* ------------------------------------------------------------------- claims

\* C1: last registration wins.  While load_library registers, the handle
\* holds at each registered level the layer of the last register_layer call at
\* that level; and a callback that dispatches at level L runs operations of
\* that layer only, never of a layer registered at L earlier.
C1_LastRegistrationWins ==
    /\ handle # None =>
          /\ DOMAIN handle.val.layers = RegisteredLevels(regLog)
          /\ \A l \in RegisteredLevels(regLog) :
                handle.val.layers[l] = LastRegistered(regLog, l)
    /\ (AfterCallback /\ from_sys(call.raw) \in RegisteredLevels(slotLog)) =>
          /\ calls # << >>
          /\ calls[1] = Ran(call.fn, LastRegistered(slotLog, from_sys(call.raw)))
          /\ \A i \in 1 .. Len(calls) :
                /\ calls[i].layer = LastRegistered(slotLog, from_sys(call.raw))
                /\ calls[i].layer \notin EarlierRegistered(slotLog, from_sys(call.raw))

\* A callback dispatched at a level where load_library registered twice.
C1_Witness ==
    /\ AfterCallback
    /\ Len(slotLog) = 2
    /\ slotLog[1].level = slotLog[2].level
    /\ from_sys(call.raw) = slotLog[2].level
    /\ calls # << >>
    /\ calls[1].layer = slotLog[2].layer

\* C2: lowest_init_level() is the least registered level in the order
\* Core < Servers < Scene < Editor, and Scene for an empty handle, both for the
\* handle load_library is filling and for the one in INIT_HANDLE; the
\* statement that calls it leaves the handle as it was.
C2_LowestInitLevel ==
    /\ [](handle # None => lowest_init_level(handle.val) = MinRegistered(regLog))
    /\ [](INIT_HANDLE # None => lowest_init_level(INIT_HANDLE.val) = MinRegistered(slotLog))
    /\ [][pc = "write_table" => handle' = handle /\ regLog' = regLog]_vars

\* load_library registered a higher level first and a lower one second.
C2_Witness ==
    /\ pc = "write_table"
    /\ Len(regLog) = 2
    /\ LevelOrd(regLog[2].level) < LevelOrd(regLog[1].level)
    /\ lowest_init_level(handle.val) = regLog[2].level

\* C3: a callback for a level without a layer runs no layer operation, leaves
\* INIT_HANDLE and its mapping as they were, panics nowhere and returns.
C3_UnregisteredDispatchNoOp ==
    [][(CallbackStep /\ INIT_HANDLE # None
          /\ from_sys(call'.raw) \notin DOMAIN INIT_HANDLE.val.layers) =>
            /\ calls' = << >>
            /\ INIT_HANDLE' = INIT_HANDLE
            /\ slotLog' = slotLog
            /\ ~caught'
            /\ ~unwound'
            /\ pc' = "idle"
            /\ ret' = "void"]_vars

\* A callback came back from a level without a layer, other levels having one.
C3_Witness ==
    /\ AfterCallback
    /\ from_sys(call.raw) \notin DOMAIN INIT_HANDLE.val.layers
    /\ DOMAIN INIT_HANDLE.val.layers # {}
    /\ calls = << >>

\* What a callback for fn at level must have run on handle h.
Dispatched(fn, h, level) ==
    IF level \notin DOMAIN h.layers
    THEN << >>
    ELSE IF fn = "initialize" /\ h.layers[level].kind = "DefaultLayer"
         THEN << Ran(fn, h.layers[level]), Ran("auto_register_classes", h.layers[level]) >>
         ELSE << Ran(fn, h.layers[level]) >>

\* C4: when a layer's initialize panics in the Initialize callback, the
\* callback returns to the host, no panic leaves it, INIT_HANDLE keeps the same
\* handle; and from then on every callback still runs the layer of its level.
C4_InitPanicContained ==
    /\ [][(CallbackStep /\ call'.fn = "initialize" /\ INIT_HANDLE # None
             /\ hadInitPanic' /\ caught') =>
               /\ pc' = "idle"
               /\ ret' = "void"
               /\ ~unwound'
               /\ INIT_HANDLE' = INIT_HANDLE]_vars
    /\ [](hadInitPanic => pc # "aborted" /\ ~unwound /\ INIT_HANDLE # None)
    /\ []((hadInitPanic /\ AfterCallback) =>
             calls = Dispatched(call.fn, INIT_HANDLE.val, from_sys(call.raw)))

\* After a panic of initialize, a callback that caught nothing ran a layer.
C4_Witness ==
    /\ hadInitPanic
    /\ AfterCallback
    /\ ~caught
    /\ calls # << >>

\* C5: Load returns 1 exactly when load_library returned true and nothing in
\* the body panicked, and 0 otherwise.
C5_LoadReturnCode ==
    (pc = "idle" /\ call.fn = "load") =>
        /\ ret \in {0, 1}
        /\ ret = 1 <=> (success /\ ~caught)

\* load_library registered a layer and returned false: Load returned 0.
C5_Witness ==
    /\ pc = "idle"
    /\ call.fn = "load"
    /\ ~success
    /\ ~caught
    /\ slotLog # << >>
    /\ ret = 0

\* C6 as stated: INIT_HANDLE changes only at the end of a successful Load, one
\* that returns 1.
C6_SetOnlyBySuccessfulLoad ==
    [][INIT_HANDLE' # INIT_HANDLE => (call'.fn = "load" /\ ret' = 1)]_vars

\* C6 amended: INIT_HANDLE is None until a Load completes without panicking;
\* every Load whose body completes without panicking sets it to Some(handle),
\* once, in its last statement, whether load_library returned true or false;
\* no other step, and no callback, changes it.
C6_SetByEveryCompletedLoad ==
    /\ [](nLoads = 0 => INIT_HANDLE = None)
    /\ [][/\ pc = "store_handle" =>
                (INIT_HANDLE' = Some(handle.val) /\ pc' = "idle" /\ ~caught')
          /\ pc # "store_handle" => INIT_HANDLE' = INIT_HANDLE
          /\ CallbackStep => INIT_HANDLE' = INIT_HANDLE]_vars

\* A Load that returned 0 without panicking has filled INIT_HANDLE, and a
\* callback has run on it since.
C6_Witness ==
    /\ AfterCallback
    /\ nLoads = 1
    /\ ~success
    /\ calls # << >>

\* C7: after a Load that did not panic, the function table holds the raw
\* value of the lowest level of the handle in INIT_HANDLE, which is the least
\* level load_library registered or Scene, both callbacks, and a null userdata.
C7_FunctionTable ==
    (pc = "idle" /\ call.fn = "load" /\ ~caught) =>
        /\ INIT_HANDLE # None
        /\ init.minimum_initialization_level = to_sys(lowest_init_level(INIT_HANDLE.val))
        /\ init.minimum_initialization_level = to_sys(MinRegistered(slotLog))
        /\ init.initialize = Some("ffi_initialize_layer")
        /\ init.deinitialize = Some("ffi_deinitialize_layer")
        /\ init.userdata = "null"

\* The second Load registered a lower level than the first and completed.
C7_Witness ==
    /\ pc = "idle"
    /\ call.fn = "load"
    /\ ~caught
    /\ nLoads = 2
    /\ slotLog # << >>
    /\ init.minimum_initialization_level = GDEXTENSION_INITIALIZATION_CORE

\* C8: a raw level that is none of the four known values is taken as Scene:
\* the callback runs what a callback for Scene runs, the Scene layer's
\* operation if there is one and nothing otherwise.
C8_UnknownRawIsScene ==
    (AfterCallback /\ call.raw \notin KnownRawLevels) =>
        /\ calls = Dispatched(call.fn, INIT_HANDLE.val, "Scene")
        /\ ~unwound
        /\ ("Scene" \notin DOMAIN INIT_HANDLE.val.layers => ~caught)

\* A callback with an unknown raw level ran the layer registered at Scene,
\* another layer being registered at Core.
C8_Witness ==
    /\ AfterCallback
    /\ call.raw \notin KnownRawLevels
    /\ DOMAIN INIT_HANDLE.val.layers = {"Core", "Scene"}
    /\ calls = << Ran(call.fn, INIT_HANDLE.val.layers["Scene"]) >>

\* C9: with load_library not overridden, Load returns 1, INIT_HANDLE holds one
\* layer, a DefaultLayer at Scene, and the table's minimum level is Scene;
\* then Initialize at Scene runs auto_register_classes, Deinitialize at Scene
\* runs the empty deinitialize and nothing else, and callbacks at Core,
\* Servers and Editor run nothing.
C9_DefaultLoadLibrary ==
    (pc = "idle" /\ ext = "default") =>
        /\ INIT_HANDLE # None
        /\ DOMAIN INIT_HANDLE.val.layers = {"Scene"}
        /\ INIT_HANDLE.val.layers["Scene"].kind = "DefaultLayer"
        /\ init.minimum_initialization_level = GDEXTENSION_INITIALIZATION_SCENE
        /\ call.fn = "load" => ret = 1
        /\ (call.fn = "initialize" /\ call.raw = GDEXTENSION_INITIALIZATION_SCENE) =>
              /\ Len(calls) = 2
              /\ calls[1].op = "initialize"
              /\ calls[2].op = "auto_register_classes"
        /\ (call.fn = "deinitialize" /\ call.raw = GDEXTENSION_INITIALIZATION_SCENE) =>
              /\ Len(calls) = 1
              /\ calls[1].op = "deinitialize"
              /\ ~caught
        /\ (call.fn \in Callbacks
              /\ call.raw \in { GDEXTENSION_INITIALIZATION_CORE,
                                GDEXTENSION_INITIALIZATION_SERVERS,
                                GDEXTENSION_INITIALIZATION_EDITOR }) =>
              /\ calls = << >>
              /\ ~caught

\* After the default Load, Initialize at Scene ran auto_register_classes.
C9_Witness ==
    /\ pc = "idle"
    /\ ext = "default"
    /\ call = [fn |-> "initialize", raw |-> GDEXTENSION_INITIALIZATION_SCENE]
    /\ Len(calls) = 2
    /\ calls[2].op = "auto_register_classes"

\* C10: the levels that have a layer are those load_library registered, and
\* no callback, panicking or not, adds or removes one.
C10_RegisteredSetFixed ==
    /\ [](INIT_HANDLE # None =>
             DOMAIN INIT_HANDLE.val.layers = RegisteredLevels(slotLog))
    /\ [][(CallbackStep /\ INIT_HANDLE # None) =>
             /\ INIT_HANDLE' # None
             /\ DOMAIN INIT_HANDLE'.val.layers = DOMAIN INIT_HANDLE.val.layers
             /\ slotLog' = slotLog]_vars

\* A callback whose layer panicked came back; one level is registered and
\* another is not.
C10_Witness ==
    /\ AfterCallback
    /\ caught
    /\ hadInitPanic
    /\ DOMAIN INIT_HANDLE.val.layers = {"Editor"}

InLoad == pc \in {"load_library", "write_table", "store_handle"}

\* C11: the per-level order Registered, Initialized, Deinitialized is not
\* enforced.  A callback for a level that has a layer runs that callback's
\* operation of that layer exactly once and no operation of any other layer,
\* whatever the call before it left the level in: just registered, already
\* initialized, or already deinitialized.
C11_OrderNotEnforced ==
    [][(CallbackStep /\ INIT_HANDLE # None
          /\ from_sys(call'.raw) \in DOMAIN INIT_HANDLE.val.layers) =>
            /\ before' \in {"Registered", "Initialized", "Deinitialized", "unknown"}
            /\ calls' # << >>
            /\ calls'[1] = Ran(call'.fn, INIT_HANDLE.val.layers[from_sys(call'.raw)])
            /\ Cardinality({ i \in 1 .. Len(calls') : calls'[i].op \in Callbacks }) = 1
            /\ \A i \in 1 .. Len(calls') :
                  calls'[i].layer = INIT_HANDLE.val.layers[from_sys(call'.raw)]]_vars

\* Initialize ran the layer of a level that had just been deinitialized.
C11_Witness ==
    /\ AfterCallback
    /\ call.fn = "initialize"
    /\ before = "Deinitialized"
    /\ calls = << Ran("initialize", INIT_HANDLE.val.layers[from_sys(call.raw)]) >>

\* C12: when load_library returns false without panicking, Load returns 0
\* but goes on: the table is written with the minimum level and both
\* callbacks, INIT_HANDLE gets the handle with every layer load_library
\* registered, and later callbacks dispatch to those layers.
C12_FalseBuilderStillPublishes ==
    /\ [][(pc = "load_library" /\ pc' # "load_library" /\ ~caught') =>
             (pc' = "write_table" /\ handle' # None)]_vars
    /\ []((pc = "idle" /\ call.fn = "load" /\ ~caught /\ ~success) =>
             /\ ret = 0
             /\ slotLoad = nLoads
             /\ INIT_HANDLE # None
             /\ DOMAIN INIT_HANDLE.val.layers = RegisteredLevels(slotLog)
             /\ \A l \in RegisteredLevels(slotLog) :
                   /\ INIT_HANDLE.val.layers[l] = LastRegistered(slotLog, l)
                   /\ INIT_HANDLE.val.layers[l].load = nLoads
             /\ init = [minimum_initialization_level |-> to_sys(MinRegistered(slotLog)),
                        userdata |-> "null",
                        initialize |-> Some("ffi_initialize_layer"),
                        deinitialize |-> Some("ffi_deinitialize_layer")])
    /\ []((AfterCallback /\ ~slotSuccess) =>
             calls = Dispatched(call.fn, INIT_HANDLE.val, from_sys(call.raw)))

\* A callback ran a layer that a load_library returning false had registered.
C12_Witness ==
    /\ AfterCallback
    /\ ~slotSuccess
    /\ calls # << >>
    /\ calls[1].layer.load = slotLoad

\* C13: when load_library panics, before or after registering layers, Load
\* returns 0 and neither the function table nor INIT_HANDLE is written: both
\* keep the values they had when Load was called, and no layer of a panicked
\* load_library is ever in INIT_HANDLE or run by a callback.
C13_BuilderPanicWritesNothing ==
    /\ [][((pc = "idle" /\ pc' = "load_library") \/ pc = "load_library") =>
             /\ init' = init
             /\ INIT_HANDLE' = INIT_HANDLE
             /\ slotLog' = slotLog]_vars
    /\ [][(pc = "load_library" /\ pc' = "idle") =>
             /\ ret' = 0
             /\ caught'
             /\ ~unwound'
             /\ handle' = None]_vars
    /\ [](lastPanic > 0 =>
             /\ slotLoad # lastPanic
             /\ INIT_HANDLE # None =>
                   \A l \in DOMAIN INIT_HANDLE.val.layers :
                      INIT_HANDLE.val.layers[l].load # lastPanic
             /\ \A i \in 1 .. Len(calls) : calls[i].layer.load # lastPanic)

\* After a second Load whose load_library panicked, a callback ran a layer of
\* the first Load.
C13_Witness ==
    /\ AfterCallback
    /\ nLoads = 2
    /\ lastPanic = 2
    /\ slotLoad = 1
    /\ calls # << >>
    /\ calls[1].layer.load = 1

\* C14: when a layer's deinitialize panics in the Deinitialize callback, the
\* callback returns to the host, no panic leaves it, INIT_HANDLE and its
\* mapping are unchanged, and later callbacks still dispatch.
C14_DeinitPanicContained ==
    /\ [][(CallbackStep /\ call'.fn = "deinitialize" /\ INIT_HANDLE # None /\ caught') =>
               /\ hadDeinitPanic'
               /\ pc' = "idle"
               /\ ret' = "void"
               /\ ~unwound'
               /\ INIT_HANDLE' = INIT_HANDLE
               /\ slotLog' = slotLog]_vars
    /\ [](hadDeinitPanic => pc # "aborted" /\ ~unwound /\ INIT_HANDLE # None)
    /\ []((hadDeinitPanic /\ AfterCallback) =>
             calls = Dispatched(call.fn, INIT_HANDLE.val, from_sys(call.raw)))

\* After a panic of deinitialize, an Initialize callback ran its layer.
C14_Witness ==
    /\ hadDeinitPanic
    /\ AfterCallback
    /\ call.fn = "initialize"
    /\ ~caught
    /\ calls # << >>

\* C15: a second Load that completes without panicking replaces the handle
\* in INIT_HANDLE by the one it built; from then on callbacks run layers of
\* that Load only, never one registered by an earlier Load.
C15_SecondLoadOverwrites ==
    /\ [][pc = "store_handle" =>
             /\ INIT_HANDLE' = Some(handle.val)
             /\ slotLog' = regLog
             /\ slotLoad' = nLoads]_vars
    /\ []((pc = "idle" /\ call.fn = "load" /\ ~caught) => slotLoad = nLoads)
    /\ [](INIT_HANDLE # None =>
             \A l \in DOMAIN INIT_HANDLE.val.layers :
                INIT_HANDLE.val.layers[l].load = slotLoad)
    /\ [](AfterCallback =>
             /\ calls = Dispatched(call.fn, INIT_HANDLE.val, from_sys(call.raw))
             /\ \A i \in 1 .. Len(calls) : calls[i].layer.load = slotLoad)

\* Two Loads completed, and a callback ran a layer of the second.
C15_Witness ==
    /\ AfterCallback
    /\ slotLoad = 2
    /\ lastPanic = 0
    /\ calls # << >>
    /\ calls[1].layer.load = 2

\* C16: a callback that finds INIT_HANDLE None panics in unwrap inside the
\* contained closure: it returns to the host, runs no layer operation, and
\* INIT_HANDLE stays None.
C16_EmptySlotCallbackContained ==
    [][(CallbackStep /\ INIT_HANDLE = None) =>
          /\ pc' = "idle"
          /\ ret' = "void"
          /\ caught'
          /\ ~unwound'
          /\ calls' = << >>
          /\ INIT_HANDLE' = None]_vars

\* A callback came back after the only Load so far panicked.
C16_Witness ==
    /\ pc = "idle"
    /\ call.fn \in Callbacks
    /\ nLoads = 1
    /\ lastPanic = 1
    /\ INIT_HANDLE = None
    /\ caught
    /\ calls = << >>

\* C17: one Load goes in a fixed order: sys::initialize, then load_library
\* on a new empty handle, then the function table, then, last, the store into
\* INIT_HANDLE.  INIT_HANDLE never holds the handle of a Load still running,
\* and Load runs no layer operation.
C17_LoadStepOrder ==
    /\ [][(pc = "idle" /\ pc' = "load_library") =>
             /\ bindings'
             /\ handle' = Some(InitHandle_new)
             /\ regLog' = << >>]_vars
    /\ [](InLoad => bindings /\ handle # None)
    /\ [][init' # init =>
             /\ pc = "write_table"
             /\ pc' = "store_handle"
             /\ INIT_HANDLE' = INIT_HANDLE]_vars
    /\ [][INIT_HANDLE' # INIT_HANDLE =>
             /\ pc = "store_handle"
             /\ pc' = "idle"
             /\ init' = init
             /\ init.minimum_initialization_level = to_sys(lowest_init_level(handle.val))
             /\ INIT_HANDLE' = Some(handle.val)]_vars
    /\ [][slotLoad' # slotLoad => (pc = "store_handle" /\ pc' = "idle")]_vars
    /\ [](InLoad => slotLoad < nLoads)
    /\ []((InLoad \/ call.fn = "load") => calls = << >>)

\* In a second Load the table is written for the new handle while
\* INIT_HANDLE still holds the first Load's handle.
C17_Witness ==
    /\ pc = "store_handle"
    /\ nLoads = 2
    /\ slotLoad = 1
    /\ INIT_HANDLE # None
    /\ INIT_HANDLE.val # handle.val
    /\ init.minimum_initialization_level = to_sys(lowest_init_level(handle.val))
    /\ init.minimum_initialization_level # to_sys(lowest_init_level(INIT_HANDLE.val))

\* C18: from_sys(to_sys(L)) = L for each level, to_sys is injective, and
\* to_sys(from_sys(r)) is r for the four known raw values and the Scene value
\* for any other; so for the raw level of every callback and the level
\* written into the table.
C18_LevelRoundTrip ==
    /\ \A l \in InitLevel : from_sys(to_sys(l)) = l
    /\ \A l1, l2 \in InitLevel : to_sys(l1) = to_sys(l2) => l1 = l2
    /\ \A r \in RawLevels :
          to_sys(from_sys(r)) =
             IF r \in KnownRawLevels THEN r ELSE GDEXTENSION_INITIALIZATION_SCENE
    /\ call.fn \in Callbacks =>
          to_sys(from_sys(call.raw)) =
             IF call.raw \in KnownRawLevels THEN call.raw
             ELSE GDEXTENSION_INITIALIZATION_SCENE
    /\ (pc = "idle" /\ call.fn = "load" /\ ~caught) =>
          from_sys(init.minimum_initialization_level) = MinRegistered(slotLog)

\* A callback got an unknown raw level while the table holds Editor's.
C18_Witness ==
    /\ AfterCallback
    /\ call.raw \notin KnownRawLevels
    /\ to_sys(from_sys(call.raw)) = GDEXTENSION_INITIALIZATION_SCENE
    /\ init.minimum_initialization_level = GDEXTENSION_INITIALIZATION_EDITOR
    /\ from_sys(init.minimum_initialization_level) = "Editor"

\* ------------------------------------------------------------ specification

Next ==
    \/ \E e \in {"default", "custom"} : Load_Enter(e)
    \/ Default_load_library
    \/ \E level \in InitLevel : Custom_register_layer(level)
    \/ \E b \in BOOLEAN : Custom_return(b)
    \/ Custom_panic
    \/ Load_WriteTable
    \/ Load_StoreHandle
    \/ \E raw \in RawLevels, panics \in BOOLEAN : ffi_initialize_layer(raw, panics)
    \/ \E raw \in RawLevels, panics \in BOOLEAN : ffi_deinitialize_layer(raw, panics)

Spec == Init /\ [][Next]_vars

====
